---- MODULE Spec2Model ----
(***************************************************************************)
(* State-machine model of the arbitrage bot in src/bot/src/main.rs: the   *)
(* two price caches, the ranked opportunity list, the metrics, and the    *)
(* six tasks spawned by ArbitrageBot::run.                                 *)
(*                                                                         *)
(* Numbers.  The f64 values of prices, quantities, sizes and profits are   *)
(* modelled as exact rationals [n, d] in lowest terms; on the inputs used  *)
(* here the f64 evaluation takes the same side of every comparison.  The   *)
(* confidence score is modelled as the f64 the additions of                *)
(* calculate_confidence produce: [tenths, ulps] is the double nearest to   *)
(* tenths/10, moved by ulps units in the last place.                       *)
(*                                                                         *)
(* Time.  `now` is the wall clock in whole seconds (as_secs); the timers   *)
(* of the tasks are not modelled, any task may take its next step at any   *)
(* moment.                                                                 *)
(***************************************************************************)
EXTENDS Integers, Sequences, FiniteSets, TLC

\* Bounds of the model.
MaxTime == 1
MaxTrades == 2

\* ------------------------------------------------------------------------
\* Exact rationals standing for f64 values.
\* ------------------------------------------------------------------------
RECURSIVE GCD(_, _)
GCD(a, b) == IF b = 0 THEN a ELSE GCD(b, a % b)

Abs(x) == IF x < 0 THEN -x ELSE x

Rat(n, d) ==
    LET g == GCD(Abs(n), Abs(d))
        s == IF d < 0 THEN -1 ELSE 1
    IN  [n |-> s * (n \div g), d |-> s * (d \div g)]

R(x) == [n |-> x, d |-> 1]

RAdd(a, b) == Rat(a.n * b.d + b.n * a.d, a.d * b.d)
RSub(a, b) == Rat(a.n * b.d - b.n * a.d, a.d * b.d)
RMul(a, b) ==
    LET g1 == GCD(Abs(a.n), b.d)
        g2 == GCD(Abs(b.n), a.d)
    IN  [n |-> (a.n \div g1) * (b.n \div g2), d |-> (a.d \div g2) * (b.d \div g1)]
RDiv(a, b) == RMul(a, Rat(b.d, b.n))
RGt(a, b) == a.n * b.d > b.n * a.d
RGe(a, b) == a.n * b.d >= b.n * a.d
RMin(a, b) == IF RGt(a, b) THEN b ELSE a

\* ------------------------------------------------------------------------
\* Configuration (main, lines 548-558).
\* ------------------------------------------------------------------------
\* min_profit_threshold: 50.0 dollars
min_profit_threshold == 50
\* max_gas_price: 50_000_000_000 wei, here in gwei
max_gas_price == 50
\* gas_estimate of every opportunity (line 362)
gas_estimate == 250000
\* opps.truncate(10)
MaxOpportunities == 10
\* .take(5) of parse_binance_depth
DepthLevels == 5

\* ------------------------------------------------------------------------
\* Sequences.
\* ------------------------------------------------------------------------
Take(s, k) == SubSeq(s, 1, IF Len(s) < k THEN Len(s) ELSE k)

\* All orders in which the keys of a HashMap can be iterated.
Orders(S) == {p \in [1..Cardinality(S) -> S] : \A i, j \in 1..Cardinality(S) : i # j => p[i] # p[j]}

\* ------------------------------------------------------------------------
\* Venues, exchanges and the inputs of the feeds.
\* ------------------------------------------------------------------------
\* The first two venues of monitor_dex_prices, in the order of its vec!; the
\* other two ("aerodrome", "sushiswap") are written by the same loop.
VenueList == <<"uniswap-v3-500", "uniswap-v3-3000">>
Venues == {VenueList[i] : i \in 1..Len(VenueList)}

\* The keys of cex_prices.
Exchanges == {"binance", "backpack"}

\* One polling pass quotes every venue.  The source's quotes are stand-ins
\* for contract calls (line 201): 2500 is inside every venue's simulated
\* price range, and the liquidities of ShallowPools are the simulated ones.
\* With them no trade size exceeds 5000 and no opportunity is ever executed;
\* DeepPools gives the first venue a liquidity of 300000, the case in
\* which the execution engine acts.
ShallowPools ==
    [v \in Venues |->
        CASE v = "uniswap-v3-500"  -> [price |-> R(2500), liquidity |-> R(50000)]
          [] v = "uniswap-v3-3000" -> [price |-> R(2500), liquidity |-> R(25000)]]

DeepPools ==
    [ShallowPools EXCEPT !["uniswap-v3-500"] = [price |-> R(2500), liquidity |-> R(300000)]]

DexPasses == {DeepPools}

\* The order book of monitor_backpack_ws: two bids, two asks, prices inside
\* the simulated ranges, the quantities of lines 303-308.
BackpackBooks ==
    { [bids |-> << <<R(2500), Rat(21, 2)>>, <<R(2499), Rat(126, 5)>> >>,
       asks |-> << <<R(2501), Rat(121, 10)>>, <<R(2502), Rat(187, 10)>> >>] }

\* JSON values (serde_json::Value) as far as parse_binance_depth looks at them.
JNull == [kind |-> "null", text |-> "", items |-> <<>>]
JStr(t) == [kind |-> "str", text |-> t, items |-> <<>>]
JNum(t) == [kind |-> "num", text |-> t, items |-> <<>>]
JArr(xs) == [kind |-> "arr", text |-> "", items |-> xs]

\* A text frame: valid is whether serde_json::from_str accepts it; b and a
\* are parsed["b"] and parsed["a"] (Null when the key is absent).
MsgInvalid == [valid |-> FALSE, b |-> JNull, a |-> JNull]
MsgAck == [valid |-> TRUE, b |-> JNull, a |-> JNull]
MsgDepth ==
    [valid |-> TRUE,
     b |-> JArr(<< JArr(<<JStr("2575.00"), JStr("50.0")>>),
                   JArr(<<JStr("2574.00"), JStr("10")>>) >>),
     a |-> JArr(<< JArr(<<JStr("2576.00"), JStr("5")>>) >>)]
MsgNumbers ==
    [valid |-> TRUE,
     b |-> JArr(<< JArr(<<JNum("2575.00"), JNum("50.0")>>) >>),
     a |-> JArr(<< JArr(<<JStr("2576.00")>>), JArr(<<JStr("abc"), JStr("5")>>) >>)]

Messages == {MsgInvalid, MsgAck, MsgDepth, MsgNumbers}

\* The texts of two fields of Config and whether they parse: private_key as
\* a LocalWallet (line 89), contract_address as an Address (line 451).  The
\* first of each is the literal of main.
PrivateKeys == {"your_private_key_here", "4c0883a69102937d6231471b5dbb6204fe5129617082792ae468d01a3f362318"}
ContractAddresses == {"0x1234567890123456789012345678901234567890", "0x1234"}
ParsesAsWallet(text) == text = "4c0883a69102937d6231471b5dbb6204fe5129617082792ae468d01a3f362318"
ParsesAsAddress(text) == text = "0x1234567890123456789012345678901234567890"

\* What the next item of the WebSocket stream can be (lines 262-276).
Frames ==
    [kind : {"text"}, msg : Messages]
        \cup [kind : {"other", "error", "closed"}, msg : {MsgInvalid}]

\* str::parse::<f64> on the decimal texts of the messages.
F64Texts == {"2575.00", "2574.00", "2576.00", "2560.00", "2502.00", "50.0", "10", "5"}
ParseF64(t) ==
    CASE t = "2575.00" -> R(2575)
      [] t = "2574.00" -> R(2574)
      [] t = "2576.00" -> R(2576)
      [] t = "2560.00" -> R(2560)
      [] t = "2502.00" -> R(2502)
      [] t = "50.0"    -> R(50)
      [] t = "10"      -> R(10)
      [] t = "5"       -> R(5)

\* The gas price the ledger answers with, in gwei; "overflow" is a price that
\* does not fit 64 bits, "error" a failed request.
GasAnswers ==
    [kind : {"price"}, gwei : {50, 51}] \cup [kind : {"overflow", "error"}, gwei : {0}]

\* How a sent transaction resolves: a receipt, an error of the send or of the
\* wait, or no receipt (the pending transaction resolves to None).
SendOutcomes == {"receipt", "error", "none"}

\* Elapsed milliseconds of an execution.
Latencies == {200, 400}

\* ------------------------------------------------------------------------
\* parse_binance_depth (lines 496-531).
\* ------------------------------------------------------------------------
\* The closure of filter_map: Some for a two-element array of strings that
\* both parse as f64, None otherwise.
LevelOk(e) ==
    /\ e.kind = "arr"
    /\ Len(e.items) = 2
    /\ \A i \in 1..2 : e.items[i].kind = "str" /\ e.items[i].text \in F64Texts

ParseLevels(field) ==
    LET raw == IF field.kind = "arr" THEN field.items ELSE <<>>
        kept == SelectSeq(Take(raw, DepthLevels), LevelOk)
    IN  [i \in 1..Len(kept) |-> <<ParseF64(kept[i].items[1].text), ParseF64(kept[i].items[2].text)>>]

\* ok is FALSE for Err (the text is not JSON); book is the CEXOrderBook of Ok.
parse_binance_depth(msg, timestamp) ==
    [ok |-> msg.valid,
     book |-> [exchange |-> "binance", symbol |-> "ETHUSDC",
               bids |-> ParseLevels(msg.b), asks |-> ParseLevels(msg.a),
               timestamp |-> timestamp]]

\* ------------------------------------------------------------------------
\* calculate_confidence (lines 533-542), in f64.
\* ------------------------------------------------------------------------
F64Conf(t, u) == [tenths |-> t, ulps |-> u]

\* c += bonus for the doubles this function meets: 0.5 + 0.2 = 0.7,
\* 0.5 + 0.1 = 0.6, 0.6 + 0.1 = 0.7 are the nearest doubles, and
\* 0.7 + 0.1 = 0.7999999999999999, 0.7999999999999999 + 0.1 = 0.8999999999999999,
\* 0.8999999999999999 + 0.1 = 0.9999999999999999 are one unit below them.
F64AddTenths(c, bonus) ==
    F64Conf(c.tenths + bonus, IF c.tenths + bonus >= 8 THEN -1 ELSE 0)

ConfGt(a, b) == a.tenths > b.tenths \/ (a.tenths = b.tenths /\ a.ulps > b.ulps)
ConfMin(a, b) == IF ConfGt(a, b) THEN b ELSE a

calculate_confidence(spread_pct, trade_size) ==
    LET c0 == F64Conf(5, 0)
        c1 == IF RGt(spread_pct, Rat(1, 2)) THEN F64AddTenths(c0, 2) ELSE c0
        c2 == IF RGt(spread_pct, R(1)) THEN F64AddTenths(c1, 1) ELSE c1
        c3 == IF RGt(trade_size, R(10000)) THEN F64AddTenths(c2, 1) ELSE c2
        c4 == IF RGt(trade_size, R(25000)) THEN F64AddTenths(c3, 1) ELSE c3
    IN  ConfMin(c4, F64Conf(10, 0))

\* ------------------------------------------------------------------------
\* detect_opportunities, the computation of one cycle (lines 339-378).
\* ------------------------------------------------------------------------
\* The venue and exchange names as the pieces between their dashes, and
\* format!("{}-{}-{}", dex_name, cex_name, timestamp) as the pieces of the
\* resulting string.
NamePieces(name) ==
    CASE name = "uniswap-v3-500"  -> <<"uniswap", "-", "v3", "-", "500">>
      [] name = "uniswap-v3-3000" -> <<"uniswap", "-", "v3", "-", "3000">>
      [] OTHER -> <<name>>

Decimal(k) == <<"0", "1", "2", "3", "4", "5", "6", "7", "8", "9">>[k + 1]

\* Mutant of FormatId: the venue is not part of the identifier.
FormatIdWithoutVenue(dex_name, cex_name, timestamp) ==
    NamePieces(cex_name) \o <<"-">> \o <<Decimal(timestamp)>>

FormatId(dex_name, cex_name, timestamp) ==
    NamePieces(dex_name) \o <<"-">> \o NamePieces(cex_name) \o <<"-">> \o <<Decimal(timestamp)>>

SpreadPct(price, bid_price) == RMul(RDiv(RSub(bid_price, price), price), R(100))

\* Mutant of TradeSize: the depth of the best bid does not cap the size.
TradeSizeLiquidityOnly(liquidity, best_bid) == RMul(liquidity, Rat(1, 10))

TradeSize(liquidity, best_bid) ==
    RMin(RMul(liquidity, Rat(1, 10)), RMul(best_bid[2], best_bid[1]))

EstimatedProfit(trade_size, spread_pct) == RDiv(RMul(trade_size, spread_pct), R(100))

\* The body of the two nested loops for one (venue, exchange) pair: the
\* opportunities it pushes, none or one.
Candidate(dex_name, dex_price, cex_name, cex_book, timestamp) ==
    IF cex_book.bids = <<>> THEN <<>>
    ELSE
      LET best_bid == cex_book.bids[1]
          spread_pct == SpreadPct(dex_price.price, best_bid[1])
          trade_size == TradeSize(dex_price.liquidity, best_bid)
          estimated_profit == EstimatedProfit(trade_size, spread_pct)
      IN  IF RGt(spread_pct, Rat(1, 10)) /\ RGt(estimated_profit, R(min_profit_threshold))
          THEN << [id |-> FormatId(dex_name, cex_name, timestamp),
                   strategy |-> "dex-to-cex",
                   buy_venue |-> dex_name,
                   sell_venue |-> cex_name,
                   buy_price |-> dex_price.price,
                   sell_price |-> best_bid[1],
                   spread |-> spread_pct,
                   estimated_profit |-> estimated_profit,
                   confidence |-> calculate_confidence(spread_pct, trade_size),
                   trade_size |-> trade_size,
                   gas_estimate |-> gas_estimate,
                   timestamp |-> timestamp] >>
          ELSE <<>>

\* new_opportunities after the loops, the maps iterated in the orders given.
RECURSIVE InnerLoop(_, _, _, _, _, _)
InnerLoop(dex_name, dex_price, cex_map, cex_order, j, timestamp) ==
    IF j > Len(cex_order) THEN <<>>
    ELSE Candidate(dex_name, dex_price, cex_order[j], cex_map[cex_order[j]], timestamp)
             \o InnerLoop(dex_name, dex_price, cex_map, cex_order, j + 1, timestamp)

RECURSIVE OuterLoop(_, _, _, _, _, _)
OuterLoop(dex_map, dex_order, i, cex_map, cex_order, timestamp) ==
    IF i > Len(dex_order) THEN <<>>
    ELSE InnerLoop(dex_order[i], dex_map[dex_order[i]], cex_map, cex_order, 1, timestamp)
             \o OuterLoop(dex_map, dex_order, i + 1, cex_map, cex_order, timestamp)

\* sort_by(|a, b| b.estimated_profit.partial_cmp(&a.estimated_profit)): a
\* stable sort, greatest profit first; x goes after the elements that are
\* not smaller than it.
RECURSIVE InsertSorted(_, _)
InsertSorted(sorted, x) ==
    IF sorted = <<>> THEN <<x>>
    ELSE IF RGe(Head(sorted).estimated_profit, x.estimated_profit)
         THEN <<Head(sorted)>> \o InsertSorted(Tail(sorted), x)
         ELSE <<x>> \o sorted

RECURSIVE SortFrom(_, _, _)
SortFrom(s, i, acc) ==
    IF i > Len(s) THEN acc ELSE SortFrom(s, i + 1, InsertSorted(acc, s[i]))

SortByProfitDesc(s) == SortFrom(s, 1, <<>>)

\* Mutant of Ranked: the list is not sorted.
RankedUnsorted(new_opportunities) == Take(new_opportunities, MaxOpportunities)

\* opps.clear(); opps.extend(new); opps.sort_by(..); opps.truncate(10)
Ranked(new_opportunities) == Take(SortByProfitDesc(new_opportunities), MaxOpportunities)

\* ------------------------------------------------------------------------
\* State.
\* ------------------------------------------------------------------------
VARIABLES
    now,               \* SystemTime::now() in whole seconds
    dex_prices,        \* HashMap<String, DEXPrice>
    cex_prices,        \* HashMap<String, CEXOrderBook>
    opportunities,     \* Vec<ArbitrageOpportunity>, the ranked list
    metrics,           \* BotMetrics
    binance_pc,        \* monitor_binance_ws: "connect", "backoff", "reading"
    detect_pc,         \* detect_opportunities: "tick", "dex_read"
    dex_map,           \* detect_opportunities' clone of dex_prices
    exec_pc,           \* execute_arbitrage: "idle", "gas", "inflight", "remove", "panicked"
    best_opportunity,  \* execute_arbitrage's Option<ArbitrageOpportunity>: <<>> or <<opp>>
    gas_price,         \* the answer of provider.get_gas_price() in this cycle
    pending,           \* the transactions sent to the ledger and not yet resolved
    attempted,         \* history: the identifiers whose attempt has returned
    samples,           \* history: execution_time of every successful trade, in order
    last_written,      \* history: per cache and key, the value of the latest insert
    config,            \* Config, as given to ArbitrageBot::new
    task_at,           \* SpecLocks: per task, the instruction of its loop it stands before
    lock_owner,        \* SpecLocks: per Mutex, the task that holds its guard, or "free"
    cex_seen           \* history, kept by SpecSnapshot only: the values of cex_prices at
                       \* the instants, since the detector cloned dex_prices, at which
                       \* dex_prices equalled the clone

vars == <<now, dex_prices, cex_prices, opportunities, metrics, binance_pc, detect_pc,
          dex_map, exec_pc, best_opportunity, gas_price, pending, attempted, last_written,
          config, cex_seen, samples, task_at, lock_owner>>

feed_vars == <<dex_prices, cex_prices, binance_pc, last_written>>
detect_vars == <<detect_pc, dex_map>>
lock_vars == <<task_at, lock_owner>>
exec_vars == <<exec_pc, best_opportunity, gas_price, pending, attempted, metrics, samples>>

\* HashMap::new() and HashMap::insert.
EmptyMap == [k \in {} |-> 0]
\* Mutant of Insert: an existing entry keeps its fields and takes only the
\* timestamp of the new value.
InsertMerged(map, key, value) ==
    [k \in DOMAIN map \cup {key} |->
        IF k # key THEN map[k]
        ELSE IF key \in DOMAIN map THEN [map[key] EXCEPT !.timestamp = value.timestamp]
             ELSE value]

Insert(map, key, value) ==
    [k \in DOMAIN map \cup {key} |-> IF k = key THEN value ELSE map[k]]

NoAnswer == [kind |-> "none", gwei |-> 0]

\* The state ArbitrageBot::new leaves (lines 95-104), every task before its
\* first step.
Constructed ==
    /\ now = 0
    /\ dex_prices = EmptyMap
    /\ cex_prices = EmptyMap
    /\ opportunities = <<>>
    /\ metrics = [total_trades |-> 0, successful_trades |-> 0, total_profit |-> R(0),
                  total_volume |-> R(0), avg_execution_time |-> R(0), gas_used |-> 0]
    /\ binance_pc = "connect"
    /\ detect_pc = "tick"
    /\ dex_map = EmptyMap
    /\ exec_pc = "idle"
    /\ best_opportunity = <<>>
    /\ gas_price = NoAnswer
    /\ pending = <<>>
    /\ attempted = {}
    /\ samples = <<>>
    /\ task_at = [t \in {"dex", "binance", "backpack", "detect", "exec", "report"} |-> 1]
    /\ lock_owner = [l \in {"dex_prices", "cex_prices", "opportunities", "metrics"} |-> "free"]
    /\ last_written = [dex |-> [v \in Venues |-> <<>>], cex |-> [e \in Exchanges |-> <<>>]]
    /\ cex_seen = {}

\* A configuration whose two texts parse.
Init ==
    /\ Constructed
    /\ config = [private_key |-> "4c0883a69102937d6231471b5dbb6204fe5129617082792ae468d01a3f362318",
                 contract_address |-> "0x1234567890123456789012345678901234567890"]

\* main returns the Err of ArbitrageBot::new (line 561) before run when the
\* private key does not parse (line 89).
Started == ParsesAsWallet(config.private_key)

\* A panic of the execution task ends the process: the join in run (line
\* 173) returns it as an error, main returns and the runtime drops every task.
Running == Started /\ exec_pc # "panicked"

\* The clock moves.
Tick ==
    /\ Running
    /\ now < MaxTime
    /\ now' = now + 1
    /\ UNCHANGED <<lock_vars, config, feed_vars, detect_vars, exec_vars, opportunities, cex_seen>>

\* ------------------------------------------------------------------------
\* Feed workers.
\* ------------------------------------------------------------------------
\* The DEXPrice of venue v in a pass (lines 203-230).
Quote(pass, v, timestamp) ==
    [venue |-> v, token_pair |-> "WETH/USDC", price |-> pass[v].price,
     liquidity |-> pass[v].liquidity, timestamp |-> timestamp]

\* Mutant of InsertQuotes: the pass writes its first venue only.
InsertQuotesFirstVenueOnly(prices, pass, i, timestamp) ==
    Insert(prices, VenueList[1], Quote(pass, VenueList[1], timestamp))

\* The inserts of one polling pass, under one lock (lines 234-237).
RECURSIVE InsertQuotes(_, _, _, _)
InsertQuotes(prices, pass, i, timestamp) ==
    IF i > Len(VenueList) THEN prices
    ELSE InsertQuotes(Insert(prices, VenueList[i], Quote(pass, VenueList[i], timestamp)),
                      pass, i + 1, timestamp)

\* monitor_dex_prices, one iteration (lines 192-240).
MonitorDexStep ==
    /\ Running
    /\ \E pass \in DexPasses :
         /\ dex_prices' = InsertQuotes(dex_prices, pass, 1, now)
         /\ last_written' = [last_written EXCEPT !.dex = [v \in Venues |-> <<Quote(pass, v, now)>>]]
    /\ UNCHANGED <<lock_vars, config, now, cex_prices, binance_pc, detect_vars, exec_vars, opportunities>>

MonitorDex == MonitorDexStep /\ UNCHANGED cex_seen

\* monitor_backpack_ws, one iteration (lines 290-315).
MonitorBackpackStep ==
    /\ Running
    /\ \E b \in BackpackBooks :
         LET order_book == [exchange |-> "backpack", symbol |-> "ETHUSDC",
                            bids |-> b.bids, asks |-> b.asks, timestamp |-> now]
         IN  /\ cex_prices' = Insert(cex_prices, "backpack", order_book)
             /\ last_written' = [last_written EXCEPT !.cex["backpack"] = <<order_book>>]
    /\ UNCHANGED <<lock_vars, config, now, dex_prices, binance_pc, detect_vars, exec_vars, opportunities>>

MonitorBackpack == MonitorBackpackStep /\ UNCHANGED cex_seen

\* monitor_binance_ws: connect_async and the subscription (lines 249-259).
\* A refused connection sleeps (line 280); a failed send continues the loop.
BinanceConnect ==
    /\ Running
    /\ binance_pc = "connect"
    /\ \E outcome \in {"refused", "send_failed", "subscribed"} :
         binance_pc' = CASE outcome = "refused" -> "backoff"
                         [] outcome = "send_failed" -> "connect"
                         [] outcome = "subscribed" -> "reading"
    /\ UNCHANGED <<lock_vars, config, now, dex_prices, cex_prices, last_written, detect_vars, exec_vars,
                   opportunities, cex_seen>>

\* The sleep of line 280 ends.
BinanceBackoff ==
    /\ Running
    /\ binance_pc = "backoff"
    /\ binance_pc' = "connect"
    /\ UNCHANGED <<lock_vars, config, now, dex_prices, cex_prices, last_written, detect_vars, exec_vars,
                   opportunities, cex_seen>>

\* One item of the stream (lines 262-276).
BinanceReadStep ==
    /\ Running
    /\ binance_pc = "reading"
    /\ \E frame \in Frames :
         LET parsed == parse_binance_depth(frame.msg, now)
             stored == frame.kind = "text" /\ parsed.ok
         IN  /\ cex_prices' = IF stored THEN Insert(cex_prices, "binance", parsed.book)
                              ELSE cex_prices
             /\ last_written' =
                    IF stored
                    THEN [last_written EXCEPT !.cex["binance"] = <<parsed.book>>]
                    ELSE last_written
             /\ binance_pc' = IF frame.kind \in {"error", "closed"} THEN "connect" ELSE "reading"
    /\ UNCHANGED <<lock_vars, config, now, dex_prices, detect_vars, exec_vars, opportunities>>

BinanceRead == BinanceReadStep /\ UNCHANGED cex_seen

\* ------------------------------------------------------------------------
\* Opportunity detector.
\* ------------------------------------------------------------------------
\* dex_prices.lock().await.clone() (line 330).
DetectReadDexStep ==
    /\ Running
    /\ detect_pc = "tick"
    /\ dex_map' = dex_prices
    /\ detect_pc' = "dex_read"
    /\ UNCHANGED <<lock_vars, config, now, feed_vars, exec_vars, opportunities>>

DetectReadDex == DetectReadDexStep /\ UNCHANGED cex_seen

\* The rest of the cycle (lines 331-378): the clone of cex_prices, the
\* timestamp, the loops over the two clones and the replacement of the
\* list.  Between the clone of cex_prices and the lock of the list the task
\* touches nothing shared, so the two are one step here; the guard of line
\* 331 is released before the list is locked.
\* Mutant of DetectCycleStep: the list is not cleared before it is
\* extended.
DetectCycleStepWithoutClear ==
    /\ Running
    /\ detect_pc = "dex_read"
    /\ \E dex_order \in Orders(DOMAIN dex_map), cex_order \in Orders(DOMAIN cex_prices) :
         opportunities' =
             Ranked(opportunities \o OuterLoop(dex_map, dex_order, 1, cex_prices, cex_order, now))
    /\ dex_map' = EmptyMap
    /\ detect_pc' = "tick"
    /\ UNCHANGED <<lock_vars, config, now, feed_vars, exec_vars>>

DetectCycleStep ==
    /\ Running
    /\ detect_pc = "dex_read"
    /\ \E dex_order \in Orders(DOMAIN dex_map), cex_order \in Orders(DOMAIN cex_prices) :
         opportunities' = Ranked(OuterLoop(dex_map, dex_order, 1, cex_prices, cex_order, now))
    /\ dex_map' = EmptyMap
    /\ detect_pc' = "tick"
    /\ UNCHANGED <<lock_vars, config, now, feed_vars, exec_vars>>

DetectCycle == DetectCycleStep /\ UNCHANGED cex_seen

\* ------------------------------------------------------------------------
\* Execution engine.
\* ------------------------------------------------------------------------
\* Mutant of Eligible: the confidence is not tested.
EligibleByProfitOnly(opp) == RGt(opp.estimated_profit, R(min_profit_threshold))

\* The test of line 409.
Eligible(opp) ==
    /\ ConfGt(opp.confidence, F64Conf(8, 0))
    /\ RGt(opp.estimated_profit, R(min_profit_threshold))

\* Mutant of AfterSend: the engine does not wait for the transaction.
AfterSendNoWait == "idle"

\* Where execute_arbitrage stands once send_transaction has been called: it
\* awaits the pending transaction (lines 467-470).
AfterSend == "inflight"

\* Mutant of GasTooHigh: a price equal to the ceiling is rejected too.
GasTooHighAtCeiling(gwei) == gwei >= max_gas_price

\* The cost guard (line 456), prices in gwei.
GasTooHigh(gwei) == gwei > max_gas_price

\* TransactionRequest of lines 461-465.
Transaction(opp, price) ==
    [to |-> config.contract_address, gas |-> opp.gas_estimate, gas_price |-> price, value |-> 0]

\* Mutant of CountFailure: a failure starts the accumulators again.
CountFailureResetting(m) ==
    [m EXCEPT !.total_trades = m.total_trades + 1, !.total_profit = R(0),
              !.total_volume = R(0), !.gas_used = 0]

\* The Err arm (lines 429-433).
CountFailure(m) == [m EXCEPT !.total_trades = m.total_trades + 1]

\* Mutant of CountSuccess: the average is taken over all attempts.
CountSuccessAveragingAttempts(m, opp, execution_time) ==
    LET n == m.total_trades + 1
    IN  [m EXCEPT !.total_trades = n,
                  !.successful_trades = m.successful_trades + 1,
                  !.total_profit = RAdd(m.total_profit, opp.estimated_profit),
                  !.total_volume = RAdd(m.total_volume, opp.trade_size),
                  !.avg_execution_time =
                      RDiv(RAdd(RMul(m.avg_execution_time, R(n - 1)), R(execution_time)), R(n)),
                  !.gas_used = m.gas_used + opp.gas_estimate]

\* Mutant of CountSuccess: the gas estimate is not accumulated.
CountSuccessWithoutGas(m, opp, execution_time) ==
    LET n == m.successful_trades + 1
    IN  [m EXCEPT !.total_trades = m.total_trades + 1,
                  !.successful_trades = n,
                  !.total_profit = RAdd(m.total_profit, opp.estimated_profit),
                  !.total_volume = RAdd(m.total_volume, opp.trade_size),
                  !.avg_execution_time =
                      RDiv(RAdd(RMul(m.avg_execution_time, R(n - 1)), R(execution_time)), R(n))]

\* The Ok arm (lines 416-428).
CountSuccess(m, opp, execution_time) ==
    LET n == m.successful_trades + 1
    IN  [total_trades |-> m.total_trades + 1,
         successful_trades |-> n,
         total_profit |-> RAdd(m.total_profit, opp.estimated_profit),
         total_volume |-> RAdd(m.total_volume, opp.trade_size),
         avg_execution_time |->
             RDiv(RAdd(RMul(m.avg_execution_time, R(n - 1)), R(execution_time)), R(n)),
         gas_used |-> m.gas_used + opp.gas_estimate]

\* opps.retain(|o| o.id != opp.id) (line 438).
Retain(opps, id) ==
    LET Keep(o) == o.id # id IN SelectSeq(opps, Keep)

\* The peek of a cycle and the test of the first opportunity (lines
\* 403-409), then the entry of execute_trade (line 451): an address that
\* parses leads to the gas price request, one that does not returns Err at
\* once, counted by the Err arm (once MaxTrades attempts are counted the
\* engine does not get there).  A first opportunity that fails the test ends
\* the cycle with nothing changed.
ExecPeek ==
    /\ Running
    /\ exec_pc = "idle"
    /\ IF opportunities # <<>> /\ Eligible(opportunities[1])
       THEN /\ best_opportunity' = <<opportunities[1]>>
            /\ IF ParsesAsAddress(config.contract_address)
               THEN /\ exec_pc' = "gas"
                    /\ UNCHANGED metrics
               ELSE /\ metrics.total_trades < MaxTrades
                    /\ metrics' = CountFailure(metrics)
                    /\ exec_pc' = "remove"
       ELSE UNCHANGED <<best_opportunity, exec_pc, metrics>>
    /\ UNCHANGED <<lock_vars, config, now, feed_vars, detect_vars, opportunities, gas_price, pending,
                   attempted, cex_seen, samples>>

\* provider.get_gas_price() answers (lines 455-470): a failed request and a
\* price above max_gas_price return Err, counted by the Err arm; as_u64
\* panics on a price beyond 64 bits; otherwise the transaction is sent.
\* Once MaxTrades attempts are counted the answer never comes.
ExecGasPrice ==
    /\ exec_pc = "gas"
    /\ metrics.total_trades < MaxTrades
    /\ \E answer \in GasAnswers :
         /\ gas_price' = answer
         /\ CASE answer.kind = "overflow" ->
                   /\ exec_pc' = "panicked"
                   /\ UNCHANGED <<pending, metrics>>
              [] answer.kind = "error" \/ (answer.kind = "price" /\ GasTooHigh(answer.gwei)) ->
                   /\ exec_pc' = "remove"
                   /\ metrics' = CountFailure(metrics)
                   /\ UNCHANGED pending
              [] OTHER ->
                   /\ exec_pc' = AfterSend
                   /\ pending' = Append(pending, Transaction(best_opportunity[1], answer.gwei))
                   /\ UNCHANGED metrics
    /\ UNCHANGED <<lock_vars, config, now, feed_vars, detect_vars, opportunities, best_opportunity,
                   attempted, cex_seen, samples>>

\* The sent transaction resolves (lines 467-470) and the arm of the match
\* runs (lines 416-433); a pending transaction that resolves without a
\* receipt panics in unwrap.
ExecResolve ==
    /\ exec_pc = "inflight"
    /\ pending # <<>>
    /\ pending' = Tail(pending)
    /\ \E outcome \in SendOutcomes, execution_time \in Latencies :
         CASE outcome = "receipt" ->
                /\ metrics' = CountSuccess(metrics, best_opportunity[1], execution_time)
                /\ samples' = Append(samples, execution_time)
                /\ exec_pc' = "remove"
           [] outcome = "error" ->
                /\ metrics' = CountFailure(metrics)
                /\ exec_pc' = "remove"
                /\ UNCHANGED samples
           [] OTHER ->
                /\ exec_pc' = "panicked"
                /\ UNCHANGED <<metrics, samples>>
    /\ UNCHANGED <<lock_vars, config, now, feed_vars, detect_vars, opportunities, best_opportunity, gas_price,
                   attempted, cex_seen>>

\* Remove executed opportunity (lines 436-438).
ExecRemove ==
    /\ exec_pc = "remove"
    /\ opportunities' = Retain(opportunities, best_opportunity[1].id)
    /\ attempted' = attempted \cup {best_opportunity[1].id}
    /\ best_opportunity' = <<>>
    /\ gas_price' = NoAnswer
    /\ exec_pc' = "idle"
    /\ UNCHANGED <<lock_vars, config, now, feed_vars, detect_vars, pending, metrics, cex_seen, samples>>

\* report_metrics, one iteration (lines 479-492): it reads and prints.
ReportMetrics ==
    /\ Running
    /\ UNCHANGED vars

Next ==
    \/ Tick
    \/ MonitorDex
    \/ MonitorBackpack
    \/ BinanceConnect
    \/ BinanceBackoff
    \/ BinanceRead
    \/ DetectReadDex
    \/ DetectCycle
    \/ ExecPeek
    \/ ExecGasPrice
    \/ ExecResolve
    \/ ExecRemove
    \/ ReportMetrics

Spec == Init /\ [][Next]_vars

\* ------------------------------------------------------------------------
\* The detector alone, over caches filled with a wider range of quotes and
\* order books: one detection cycle from every such pair of caches.
\* ------------------------------------------------------------------------
DetectQuotes ==
    { [price |-> R(p), liquidity |-> R(l)] : p \in {2000, 2500}, l \in {50000, 300000} }

DetectBids ==
    { <<>>,
      << <<R(2560), R(10)>> >>,
      << <<R(2502), R(10)>> >>,
      << <<Rat(5005, 2), R(10)>> >>,
      << <<R(2525), R(10)>>, <<R(2524), R(50)>> >>,
      << <<R(2575), R(50)>>, <<R(2574), R(10)>> >> }

InitDetect ==
    /\ now = 0
    /\ config = [private_key |-> "4c0883a69102937d6231471b5dbb6204fe5129617082792ae468d01a3f362318",
                 contract_address |-> "0x1234567890123456789012345678901234567890"]
    /\ \E pass \in [Venues -> DetectQuotes], bids \in DetectBids, backpack \in BOOLEAN :
         LET binance_book == [exchange |-> "binance", symbol |-> "ETHUSDC", bids |-> bids,
                              asks |-> <<>>, timestamp |-> 0]
             backpack_book == LET b == CHOOSE b \in BackpackBooks : TRUE
                              IN  [exchange |-> "backpack", symbol |-> "ETHUSDC",
                                   bids |-> b.bids, asks |-> b.asks, timestamp |-> 0]
             books == IF backpack
                      THEN Insert(Insert(EmptyMap, "binance", binance_book), "backpack", backpack_book)
                      ELSE Insert(EmptyMap, "binance", binance_book)
         IN  /\ dex_prices = InsertQuotes(EmptyMap, pass, 1, 0)
             /\ cex_prices = books
             /\ last_written =
                    [dex |-> [v \in Venues |-> <<dex_prices[v]>>],
                     cex |-> [e \in Exchanges |->
                                IF e \in DOMAIN cex_prices THEN <<cex_prices[e]>> ELSE <<>>]]
    /\ opportunities = <<>>
    /\ metrics = [total_trades |-> 0, successful_trades |-> 0, total_profit |-> R(0),
                  total_volume |-> R(0), avg_execution_time |-> R(0), gas_used |-> 0]
    /\ binance_pc = "reading"
    /\ detect_pc = "tick"
    /\ dex_map = EmptyMap
    /\ exec_pc = "idle"
    /\ best_opportunity = <<>>
    /\ gas_price = NoAnswer
    /\ pending = <<>>
    /\ attempted = {}
    /\ samples = <<>>
    /\ task_at = [t \in {"dex", "binance", "backpack", "detect", "exec", "report"} |-> 1]
    /\ lock_owner = [l \in {"dex_prices", "cex_prices", "opportunities", "metrics"} |-> "free"]
    /\ cex_seen = {}

NextDetect ==
    \/ DetectReadDex
    \/ DetectCycle

SpecDetect == InitDetect /\ [][NextDetect]_vars

\* ------------------------------------------------------------------------
\* The feed workers and the detector with the history cex_seen: the steps
\* are those of Spec, and every step that leaves the detector between its
\* two clones (lines 330 and 331) records the instant it leaves.
\* ------------------------------------------------------------------------
\* cex_seen after a feed worker has left the caches as dex and cex.
SeenAfter(dex, cex) ==
    IF detect_pc = "dex_read" /\ dex = dex_map THEN cex_seen \cup {cex} ELSE cex_seen

MonitorDexSeen == MonitorDexStep /\ cex_seen' = SeenAfter(dex_prices', cex_prices)
MonitorBackpackSeen == MonitorBackpackStep /\ cex_seen' = SeenAfter(dex_prices, cex_prices')
BinanceReadSeen == BinanceReadStep /\ cex_seen' = SeenAfter(dex_prices, cex_prices')
DetectReadDexSeen == DetectReadDexStep /\ cex_seen' = {cex_prices}
DetectCycleSeen == DetectCycleStep /\ cex_seen' = {}

NextSnapshot ==
    \/ Tick
    \/ MonitorDexSeen
    \/ MonitorBackpackSeen
    \/ BinanceConnect
    \/ BinanceBackoff
    \/ BinanceReadSeen
    \/ DetectReadDexSeen
    \/ DetectCycleSeen

SpecSnapshot == Init /\ [][NextSnapshot]_vars

\* ------------------------------------------------------------------------
\* The program started with any of the configurations.
\* ------------------------------------------------------------------------
InitAnyConfig ==
    /\ Constructed
    /\ config \in [private_key : PrivateKeys, contract_address : ContractAddresses]

SpecAnyConfig == InitAnyConfig /\ [][Next]_vars

\* ------------------------------------------------------------------------
\* The locks.  Each task is the loop of its function, reduced to the awaits
\* of timers, network and ledger, the acquisitions of the four Mutexes and
\* the ends of the scopes of their guards; next are the instructions that
\* can follow.  The steps of Spec are the stretches between two awaits: the
\* data stay as they are here.
\* ------------------------------------------------------------------------
Tasks == {"dex", "binance", "backpack", "detect", "exec", "report"}
Locks == {"dex_prices", "cex_prices", "opportunities", "metrics"}
Instr(op, arg, next) == [op |-> op, arg |-> arg, next |-> next]

\* monitor_dex_prices: interval.tick (193); lock (234); the guard `prices`
\* lives to the end of the loop body (240).
DexCode ==
    << Instr("await", "interval", {2}),
       Instr("lock", "dex_prices", {3}),
       Instr("unlock", "dex_prices", {1}) >>

\* monitor_binance_ws: connect_async (249), Ok or Err; send (256), sent or
\* continue; next (262), a text that parses, another item, or an error or
\* the end; lock (266), guard dropped at the end of the if (268); sleep (280).
BinanceCode ==
    << Instr("await", "connect", {2, 6}),
       Instr("await", "send", {3, 1}),
       Instr("await", "read", {4, 3, 1}),
       Instr("lock", "cex_prices", {5}),
       Instr("unlock", "cex_prices", {3}),
       Instr("await", "sleep", {1}) >>

\* monitor_backpack_ws: interval.tick (291); lock (313); end of body (315).
BackpackCode ==
    << Instr("await", "interval", {2}),
       Instr("lock", "cex_prices", {3}),
       Instr("unlock", "cex_prices", {1}) >>

\* Mutant of DetectCode: the guard of dex_prices is kept while cex_prices is
\* cloned.
DetectCodeNested ==
    << Instr("await", "interval", {2}),
       Instr("lock", "dex_prices", {3}),
       Instr("lock", "cex_prices", {4}),
       Instr("unlock", "cex_prices", {5}),
       Instr("unlock", "dex_prices", {6}),
       Instr("lock", "opportunities", {7}),
       Instr("unlock", "opportunities", {1}) >>

\* detect_opportunities: interval.tick (328); the guards of lines 330 and
\* 331 are temporaries, dropped at the end of their statements; lock of the
\* list (374), guard `opps` dropped at the end of the loop body (387).
DetectCode ==
    << Instr("await", "interval", {2}),
       Instr("lock", "dex_prices", {3}),
       Instr("unlock", "dex_prices", {4}),
       Instr("lock", "cex_prices", {5}),
       Instr("unlock", "cex_prices", {6}),
       Instr("lock", "opportunities", {7}),
       Instr("unlock", "opportunities", {1}) >>

\* execute_arbitrage with execute_trade: interval.tick (401); the peek in
\* its block (403-406), then the next cycle or the trade; get_gas_price
\* (455), send_transaction (467) and the confirmation (468), each of which
\* can return Err; the lock of the metrics in either arm (421, 431), dropped
\* at the end of the arm; the lock of the list (437), dropped at the end of
\* the if (439).
ExecCode ==
    << Instr("await", "interval", {2}),
       Instr("lock", "opportunities", {3}),
       Instr("unlock", "opportunities", {1, 4}),
       Instr("await", "get_gas_price", {5, 7}),
       Instr("await", "send_transaction", {6, 7}),
       Instr("await", "confirmation", {7}),
       Instr("lock", "metrics", {8}),
       Instr("unlock", "metrics", {9}),
       Instr("lock", "opportunities", {10}),
       Instr("unlock", "opportunities", {1}) >>

\* report_metrics: interval.tick (480); lock (482), guard `m` dropped at the
\* end of the loop body (492).
ReportCode ==
    << Instr("await", "interval", {2}),
       Instr("lock", "metrics", {3}),
       Instr("unlock", "metrics", {1}) >>

Code(t) ==
    CASE t = "dex" -> DexCode
      [] t = "binance" -> BinanceCode
      [] t = "backpack" -> BackpackCode
      [] t = "detect" -> DetectCode
      [] t = "exec" -> ExecCode
      [] t = "report" -> ReportCode

Current(t) == Code(t)[task_at[t]]

data_vars == <<now, dex_prices, cex_prices, opportunities, metrics, binance_pc, detect_pc,
               dex_map, exec_pc, best_opportunity, gas_price, pending, attempted,
               last_written, config, cex_seen, samples>>

\* An await of a timer, of the network or of the ledger completes.
AwaitStep(t) ==
    /\ Current(t).op = "await"
    /\ \E n \in Current(t).next : task_at' = [task_at EXCEPT ![t] = n]
    /\ UNCHANGED <<lock_owner, data_vars>>

\* mutex.lock().await completes: the Mutex is free and the task takes it.
LockStep(t) ==
    /\ Current(t).op = "lock"
    /\ lock_owner[Current(t).arg] = "free"
    /\ lock_owner' = [lock_owner EXCEPT ![Current(t).arg] = t]
    /\ \E n \in Current(t).next : task_at' = [task_at EXCEPT ![t] = n]
    /\ UNCHANGED data_vars

\* The scope of a guard ends.
UnlockStep(t) ==
    /\ Current(t).op = "unlock"
    /\ lock_owner' = [lock_owner EXCEPT ![Current(t).arg] = "free"]
    /\ \E n \in Current(t).next : task_at' = [task_at EXCEPT ![t] = n]
    /\ UNCHANGED data_vars

NextLocks ==
    \/ \E t \in Tasks : AwaitStep(t)
    \/ \E t \in Tasks : LockStep(t)
    \/ \E t \in Tasks : UnlockStep(t)

SpecLocks == Init /\ [][NextLocks]_vars

\* ------------------------------------------------------------------------
\* The claims.
\* ------------------------------------------------------------------------
\* The comparisons of the claims, written on numerators and denominators.
FracGt(a, n, d) == a.n * d > n * a.d
FracLe(a, n, d) == a.n * d <= n * a.d
AboveCeiling(answer) == answer.kind = "price" /\ answer.gwei > max_gas_price
WithinCeiling(answer) == answer.kind = "price" /\ answer.gwei <= max_gas_price
ConfidenceAbove08(c) == c.tenths > 8 \/ (c.tenths = 8 /\ c.ulps > 0)
PassesExecutionTest(opp) ==
    ConfidenceAbove08(opp.confidence) /\ FracGt(opp.estimated_profit, min_profit_threshold, 1)

\* C1: in every reachable state at most one settlement submission is in
\* flight: no transaction is sent before the previous one has resolved,
\* whatever the detector and the feed workers do in between.
SingleFlight == Len(pending) <= 1

\* A submission is in flight and the detector has replaced the list since
\* the engine peeked.
SingleFlightWitness ==
    /\ Len(pending) = 1
    /\ opportunities # <<>>
    /\ opportunities[1].id # best_opportunity[1].id

\* C2: an identifier whose attempt has returned (success or failure) is in
\* no later state of the ranked list.
AttemptedNeverReappears ==
    \A i \in 1..Len(opportunities) : opportunities[i].id \notin attempted

\* C3: a fee price above the ceiling leaves every field of the metrics as it
\* was.
FeeAboveCeilingCountsNothing ==
    [][(exec_pc = "gas" /\ AboveCeiling(gas_price')) => metrics' = metrics]_vars

\* C4: after a fee price above the ceiling the engine ends its cycle with
\* the ranked list unchanged.
FeeAboveCeilingKeepsOpportunity ==
    [][(exec_pc = "remove" /\ exec_pc' = "idle" /\ AboveCeiling(gas_price))
          => opportunities' = opportunities]_vars

\* C5: a transaction is sent only in the step in which the fee price was
\* answered and only if that price is at or below the ceiling, and for the
\* opportunity the engine took up a price at or below the ceiling always
\* sends the transaction, with that price and the opportunity's gas budget.
CostGuardGatesSubmission ==
    [][/\ (Len(pending') > Len(pending)) => (exec_pc = "gas" /\ WithinCeiling(gas_price'))
       /\ (exec_pc = "gas" /\ exec_pc' # "gas" /\ WithinCeiling(gas_price'))
             => /\ Len(pending') = Len(pending) + 1
                /\ pending'[Len(pending')].gas_price = gas_price'.gwei
                /\ pending'[Len(pending')].gas = best_opportunity[1].gas_estimate]_vars

\* A transaction sent at a fee price equal to the ceiling is in flight.
CostGuardWitness == pending # <<>> /\ pending[1].gas_price = max_gas_price

\* C6: the engine takes up only the first opportunity of the list as it is
\* when it peeks, and only if its confidence is strictly above 0.8 and its
\* profit strictly above the threshold; every transaction is sent for such
\* an opportunity; a first opportunity that fails the test is left alone.
SubmitsOnlyEligibleTop ==
    [][/\ (exec_pc = "idle" /\ exec_pc' # "idle")
             => /\ opportunities # <<>>
                /\ best_opportunity' = <<opportunities[1]>>
                /\ PassesExecutionTest(opportunities[1])
                /\ opportunities' = opportunities
       /\ (Len(pending') > Len(pending))
             => /\ best_opportunity # <<>>
                /\ PassesExecutionTest(best_opportunity[1])
                /\ best_opportunity[1].confidence # F64Conf(8, 0)
       /\ (exec_pc = "idle" /\ (opportunities = <<>> \/ ~PassesExecutionTest(opportunities[1])))
             => /\ UNCHANGED exec_vars
                /\ (opportunities' = opportunities \/ detect_pc' # detect_pc)]_vars

\* The engine has removed the opportunity it attempted and the first of the
\* list is now one of confidence 0.8 in nominal terms, which it leaves.
SubmitsOnlyEligibleTopWitness ==
    /\ attempted # {}
    /\ exec_pc = "idle"
    /\ opportunities # <<>>
    /\ opportunities[1].confidence.tenths = 8
    /\ ~PassesExecutionTest(opportunities[1])

\* C7: the ranked list holds at most 10 opportunities and is sorted by
\* descending estimated profit, in every state.
RankedListSortedAndCapped ==
    /\ Len(opportunities) <= 10
    /\ \A i, j \in 1..Len(opportunities) :
          i < j => opportunities[i].estimated_profit.n * opportunities[j].estimated_profit.d
                      >= opportunities[j].estimated_profit.n * opportunities[i].estimated_profit.d

\* Two opportunities of different profit are in the list after a removal by
\* the engine.
RankedListWitness ==
    /\ attempted # {}
    /\ Len(opportunities) >= 2
    /\ opportunities[1].estimated_profit # opportunities[2].estimated_profit

\* C8: after a detection cycle the list holds an opportunity for a (venue,
\* exchange) pair of the clones exactly if the exchange has a best bid,
\* (bid - price) / price * 100 > 0.1 and the estimated profit
\* min(liquidity * 0.1, quantity * bid) * spreadPct / 100 is above 50, with
\* these values in its fields; price 2500, liquidity 50000 and best bid
\* (2560, 10) give profit 120, best bid (2502, 10) gives nothing.
ClaimedSpreadPct(q, bid) == Rat((bid[1].n * q.price.d - q.price.n * bid[1].d) * 100 * q.price.d,
                                bid[1].d * q.price.d * q.price.n)
ClaimedTradeSize(q, bid) ==
    LET by_liquidity == Rat(q.liquidity.n, q.liquidity.d * 10)
        by_depth == Rat(bid[2].n * bid[1].n, bid[2].d * bid[1].d)
    IN  IF by_liquidity.n * by_depth.d <= by_depth.n * by_liquidity.d
        THEN by_liquidity ELSE by_depth
ClaimedProfit(q, bid) ==
    LET sp == ClaimedSpreadPct(q, bid)
        ts == ClaimedTradeSize(q, bid)
    IN  Rat(ts.n * sp.n, ts.d * sp.d * 100)
ClaimedEmitted(q, book) ==
    /\ book.bids # <<>>
    /\ FracGt(ClaimedSpreadPct(q, book.bids[1]), 1, 10)
    /\ FracGt(ClaimedProfit(q, book.bids[1]), min_profit_threshold, 1)

EmitsExactlyProfitablePairs ==
    [][(detect_pc = "dex_read" /\ detect_pc' = "tick") =>
          \A v \in DOMAIN dex_map, e \in DOMAIN cex_prices :
             LET found == {i \in 1..Len(opportunities') :
                             /\ opportunities'[i].buy_venue = v
                             /\ opportunities'[i].sell_venue = e}
                 q == dex_map[v]
                 book == cex_prices[e]
             IN  /\ ClaimedEmitted(q, book) <=> found # {}
                 /\ Cardinality(found) <= 1
                 /\ \A i \in found :
                       /\ opportunities'[i].spread = ClaimedSpreadPct(q, book.bids[1])
                       /\ opportunities'[i].trade_size = ClaimedTradeSize(q, book.bids[1])
                       /\ opportunities'[i].estimated_profit = ClaimedProfit(q, book.bids[1])
                       /\ opportunities'[i].buy_price = q.price
                       /\ opportunities'[i].sell_price = book.bids[1][1]
                 /\ (q.price = R(2500) /\ q.liquidity = R(50000) /\ book.bids # <<>>)
                       => /\ (book.bids[1] = <<R(2560), R(10)>>
                                => \E i \in found : opportunities'[i].estimated_profit = R(120))
                          /\ (book.bids[1] = <<R(2502), R(10)>> => found = {})]_vars

\* A cycle has emitted the opportunity of price 2500, liquidity 50000 and
\* best bid (2560, 10), with profit 120, and none for another venue whose
\* pair fails the profit test.
EmitsWitness ==
    /\ detect_pc = "tick"
    /\ \E i \in 1..Len(opportunities) :
          /\ opportunities[i].buy_price = R(2500)
          /\ opportunities[i].sell_price = R(2560)
          /\ opportunities[i].trade_size = R(5000)
          /\ opportunities[i].estimated_profit = R(120)
    /\ Len(opportunities) < Cardinality(DOMAIN dex_prices) * Cardinality(DOMAIN cex_prices)

\* C9: the confidence is non-decreasing in the spread and in the trade size,
\* lies in [0, 1], equals 1.0 when the spread is above 1.0 and the size
\* above 25000, and 0.8 when the spread is above 1.0 and the size at most
\* 10000.
ConfLe(a, b) == ~ConfGt(a, b)
ConfidenceAsSpecified ==
    \A i, j \in 1..Len(opportunities) :
       LET a == opportunities[i]
           b == opportunities[j]
       IN  /\ ConfLe(F64Conf(0, 0), a.confidence) /\ ConfLe(a.confidence, F64Conf(10, 0))
           /\ (a.trade_size = b.trade_size /\ RGe(b.spread, a.spread))
                 => ConfLe(a.confidence, b.confidence)
           /\ (a.spread = b.spread /\ RGe(b.trade_size, a.trade_size))
                 => ConfLe(a.confidence, b.confidence)
           /\ (FracGt(a.spread, 1, 1) /\ FracGt(a.trade_size, 25000, 1))
                 => a.confidence = F64Conf(10, 0)
           /\ (FracGt(a.spread, 1, 1) /\ FracLe(a.trade_size, 10000, 1))
                 => a.confidence = F64Conf(8, 0)

\* C10: each cache holds, for every key, exactly the value of the latest
\* insert under that key, whole, and no entry for a key never written.
LastWriterWins ==
    /\ \A v \in Venues :
          IF last_written.dex[v] = <<>> THEN v \notin DOMAIN dex_prices
          ELSE v \in DOMAIN dex_prices /\ dex_prices[v] = last_written.dex[v][1]
    /\ \A e \in Exchanges :
          IF last_written.cex[e] = <<>> THEN e \notin DOMAIN cex_prices
          ELSE e \in DOMAIN cex_prices /\ cex_prices[e] = last_written.cex[e][1]
    /\ DOMAIN dex_prices \subseteq Venues
    /\ DOMAIN cex_prices \subseteq Exchanges

\* The detector holds a clone with the first value of a key, the cache holds
\* the second, written later; and the order book of an exchange has been
\* replaced by one with other bids.
LastWriterWinsWitness ==
    /\ detect_pc = "dex_read"
    /\ "uniswap-v3-500" \in DOMAIN dex_map
    /\ dex_map["uniswap-v3-500"].timestamp = 0
    /\ dex_prices["uniswap-v3-500"].timestamp = 1
    /\ "binance" \in DOMAIN cex_prices
    /\ cex_prices["binance"].timestamp = 1
    /\ cex_prices["binance"].bids = <<>>
    /\ opportunities # <<>>

\* C11: the two clones of a detection cycle are together the contents of the
\* two caches at one instant between the two reads: when the detector clones
\* cex_prices, there was an instant since its clone of dex_prices at which
\* dex_prices equalled that clone and cex_prices was what it clones now.
PointInTimeClone ==
    [][(detect_pc = "dex_read" /\ detect_pc' = "tick") => cex_prices \in cex_seen]_vars

\* C12: a sent transaction that resolves otherwise than by a confirmed
\* success counts one failed attempt (total_trades + 1, nothing else of the
\* metrics changes), the engine goes on to remove the opportunity, the
\* removal leaves no opportunity of that identifier in the list, and the
\* engine is back at the start of its loop.
FailureCountedAndConsumed ==
    [][/\ (exec_pc = "inflight" /\ exec_pc' # "inflight"
              /\ metrics'.successful_trades = metrics.successful_trades)
             => /\ metrics' = [metrics EXCEPT !.total_trades = metrics.total_trades + 1]
                /\ exec_pc' = "remove"
       /\ (exec_pc = "remove" /\ exec_pc' # "remove")
             => /\ exec_pc' = "idle"
                /\ \A i \in 1..Len(opportunities') :
                      opportunities'[i].id # best_opportunity[1].id]_vars

\* C13: with a private key or a contract address that does not parse, the
\* program stays as constructed: no cache entry is written, no detection
\* cycle starts, nothing is listed, attempted or counted.
FatalConfigStopsBeforeWorkers ==
    (config.private_key # "4c0883a69102937d6231471b5dbb6204fe5129617082792ae468d01a3f362318"
        \/ config.contract_address # "0x1234567890123456789012345678901234567890")
       => /\ DOMAIN dex_prices = {} /\ DOMAIN cex_prices = {}
          /\ detect_pc = "tick" /\ binance_pc = "connect" /\ exec_pc = "idle"
          /\ opportunities = <<>>
          /\ attempted = {}
          /\ metrics.total_trades = 0

\* C14: two opportunities of one detection cycle with different (buy venue,
\* sell venue) pairs have different identifiers: so it is in the list, whose
\* entries are always of one cycle, and so it is for every two pairs of the
\* venues and exchanges of the source at one timestamp.
SourceVenues == Venues \cup {"aerodrome", "sushiswap"}
IdsDistinctWithinCycle ==
    /\ \A i, j \in 1..Len(opportunities) :
          <<opportunities[i].buy_venue, opportunities[i].sell_venue>>
                # <<opportunities[j].buy_venue, opportunities[j].sell_venue>>
             => opportunities[i].id # opportunities[j].id
    /\ \A v1, v2 \in SourceVenues, e1, e2 \in Exchanges :
          <<v1, e1>> # <<v2, e2>> => FormatId(v1, e1, now) # FormatId(v2, e2, now)

\* A cycle has listed two opportunities that differ in the venue only.
IdsDistinctWitness ==
    /\ Len(opportunities) >= 2
    /\ opportunities[1].buy_venue # opportunities[2].buy_venue
    /\ opportunities[1].sell_venue = opportunities[2].sell_venue
    /\ opportunities[1].timestamp = opportunities[2].timestamp

\* C15: no step lowers total_trades, successful_trades, total_profit,
\* total_volume or gas_used.
MetricsNeverDecrease ==
    [][/\ metrics'.total_trades >= metrics.total_trades
       /\ metrics'.successful_trades >= metrics.successful_trades
       /\ metrics'.total_profit.n * metrics.total_profit.d
             >= metrics.total_profit.n * metrics'.total_profit.d
       /\ metrics'.total_volume.n * metrics.total_volume.d
             >= metrics.total_volume.n * metrics'.total_volume.d
       /\ metrics'.gas_used >= metrics.gas_used]_vars

\* A failed attempt has been counted after a successful one.
MetricsNeverDecreaseWitness ==
    /\ metrics.successful_trades = 1
    /\ metrics.total_trades = 2
    /\ metrics.total_profit.n > 0
    /\ metrics.gas_used > 0

\* C16: the step that counts a confirmed success adds one to total_trades
\* and to successful_trades, the opportunity's estimated_profit to
\* total_profit, its trade_size to total_volume and its gas_estimate to
\* gas_used; the metrics have no field besides these and
\* avg_execution_time, and no other step raises successful_trades.
SumIs(total, before, added) ==
    total.n * before.d * added.d = (before.n * added.d + added.n * before.d) * total.d
SuccessUpdatesMetrics ==
    [][(metrics'.successful_trades # metrics.successful_trades)
          => /\ exec_pc = "inflight" /\ best_opportunity # <<>>
             /\ metrics'.total_trades = metrics.total_trades + 1
             /\ metrics'.successful_trades = metrics.successful_trades + 1
             /\ SumIs(metrics'.total_profit, metrics.total_profit,
                      best_opportunity[1].estimated_profit)
             /\ SumIs(metrics'.total_volume, metrics.total_volume,
                      best_opportunity[1].trade_size)
             /\ metrics'.gas_used = metrics.gas_used + best_opportunity[1].gas_estimate
             /\ DOMAIN metrics' = {"total_trades", "successful_trades", "total_profit",
                                   "total_volume", "avg_execution_time", "gas_used"}]_vars

\* Two successes have been counted: profit 900 each, size 30000 each.
SuccessUpdatesWitness ==
    /\ metrics.successful_trades = 2
    /\ metrics.total_trades = 2
    /\ metrics.total_profit = R(1800)
    /\ metrics.total_volume = R(60000)
    /\ metrics.gas_used = 500000

\* C17: avg_execution_time times successful_trades is the sum of the
\* execution times of the successful trades; a success moves it to
\* (avg * (n - 1) + sample) / n, n the new count of successes; a step that
\* counts no success leaves it as it is.
RECURSIVE SumOf(_)
SumOf(seq) == IF seq = <<>> THEN 0 ELSE Head(seq) + SumOf(Tail(seq))
RunningMeanOfSuccesses ==
    /\ [](/\ Len(samples) = metrics.successful_trades
          /\ metrics.avg_execution_time.n * metrics.successful_trades
                = SumOf(samples) * metrics.avg_execution_time.d)
    /\ [][IF metrics'.successful_trades = metrics.successful_trades
          THEN metrics'.avg_execution_time = metrics.avg_execution_time
          ELSE LET n == metrics'.successful_trades
                   avg == metrics.avg_execution_time
                   sample == samples'[Len(samples')]
               IN  metrics'.avg_execution_time.n * avg.d * n
                      = (avg.n * (n - 1) + sample * avg.d) * metrics'.avg_execution_time.d]_vars

\* A success of 200 ms and then one of 400 ms have been counted: the
\* average is 300.
RunningMeanWitness ==
    /\ samples = <<200, 400>>
    /\ metrics.avg_execution_time = R(300)

\* C18: the streaming worker is always inside its loop, and it comes to a
\* connection attempt only from the backoff wait: a refused connection, a
\* failed subscription, a read error and the end of the stream are each
\* followed by the wait before the worker connects again.
BackoffBeforeEveryReconnect ==
    /\ [](binance_pc \in {"connect", "backoff", "reading"})
    /\ [][/\ (binance_pc # "connect" /\ binance_pc' = "connect") => binance_pc = "backoff"
          /\ (binance_pc = "reading" /\ binance_pc' # "reading") => binance_pc' = "backoff"]_vars

\* C19: the order book of the streaming exchange changes only by a
\* well-formed depth update, a text that is JSON and carries bid and ask
\* arrays of [price, quantity] pairs of strings: after any other message the
\* entry is what it was before, and the worker is still reading.
PairOfStrings(e) ==
    e.kind = "arr" /\ Len(e.items) = 2 /\ e.items[1].kind = "str" /\ e.items[2].kind = "str"
WellFormedDepth(msg) ==
    /\ msg.valid
    /\ msg.b.kind = "arr" /\ \A i \in 1..Len(msg.b.items) : PairOfStrings(msg.b.items[i])
    /\ msg.a.kind = "arr" /\ \A i \in 1..Len(msg.a.items) : PairOfStrings(msg.a.items[i])
BinanceEntry(map) == IF "binance" \in DOMAIN map THEN <<map["binance"]>> ELSE <<>>
MalformedMessageDropped ==
    [][(BinanceEntry(cex_prices') # BinanceEntry(cex_prices))
          => /\ binance_pc = "reading" /\ binance_pc' = "reading"
             /\ \E msg \in Messages :
                   /\ WellFormedDepth(msg)
                   /\ cex_prices'["binance"] = parse_binance_depth(msg, now).book]_vars

\* C20: the step that ends a detection cycle leaves in the list exactly the
\* candidates of that cycle, the at most 10 of highest profit, and nothing
\* of the list before; every other step leaves the list as it is or takes
\* entries out of it, so the entries of the list are always of one cycle.
CandidatesOfCycle ==
    UNION { { Candidate(v, dex_map[v], e, cex_prices[e], now)[i] :
                i \in 1..Len(Candidate(v, dex_map[v], e, cex_prices[e], now)) } :
            v \in DOMAIN dex_map, e \in DOMAIN cex_prices }
EntriesOf(seq) == {seq[i] : i \in 1..Len(seq)}
IsSubsequence(short, long) ==
    \E f \in [1..Len(short) -> 1..Len(long)] :
       /\ \A i \in 1..Len(short) : short[i] = long[f[i]]
       /\ \A i, j \in 1..Len(short) : i < j => f[i] < f[j]
ListReplacedEachCycle ==
    [][IF detect_pc = "dex_read" /\ detect_pc' = "tick"
       THEN /\ EntriesOf(opportunities') \subseteq CandidatesOfCycle
            /\ Len(opportunities') = Cardinality(EntriesOf(opportunities'))
            /\ Len(opportunities')
                  = IF Cardinality(CandidatesOfCycle) < 10 THEN Cardinality(CandidatesOfCycle)
                    ELSE 10
            /\ \A c \in CandidatesOfCycle \ EntriesOf(opportunities') :
                  \A i \in 1..Len(opportunities') :
                     ~FracGt(c.estimated_profit, opportunities'[i].estimated_profit.n,
                             opportunities'[i].estimated_profit.d)
       ELSE opportunities' = opportunities \/ IsSubsequence(opportunities', opportunities)]_vars

\* The list holds the two opportunities of a cycle of second 1, and an
\* opportunity of a cycle of second 0 has been attempted: the list that
\* cycle made, with its entry the engine never takes up, is gone.
ListReplacedWitness ==
    /\ detect_pc = "tick"
    /\ Len(opportunities) = 2
    /\ \A i \in 1..2 : opportunities[i].timestamp = 1
    /\ \E id \in attempted : id[Len(id)] = "0"

\* C21: no task holds two of the four locks at once; a task that waits for a
\* timer, the network or the ledger holds none; every task can take its next
\* step or waits for a lock whose holder can take its next step, so no set
\* of tasks blocks itself for ever; and while a settlement is requested,
\* sent or awaiting confirmation, the engine holds no lock.
Held(t) == {l \in Locks : lock_owner[l] = t}
CanStep(t) == Current(t).op = "lock" => lock_owner[Current(t).arg] = "free"
OneLockAtATimeNoneAcrossWaits ==
    /\ \A t \in Tasks : Cardinality(Held(t)) <= 1
    /\ \A t \in Tasks : Current(t).op = "await" => Held(t) = {}
    /\ \A t \in Tasks :
          \/ CanStep(t)
          \/ /\ lock_owner[Current(t).arg] \in Tasks \ {t}
             /\ CanStep(lock_owner[Current(t).arg])
    /\ Current("exec").arg \in {"get_gas_price", "send_transaction", "confirmation"}
          => \A l \in Locks : lock_owner[l] # "exec"

\* A settlement awaits its confirmation while the detector holds the list,
\* the polling worker the price cache and the streaming worker the
\* order-book cache, for which the other exchange's worker waits.
OneLockAtATimeWitness ==
    /\ Current("exec").arg = "confirmation"
    /\ lock_owner["opportunities"] = "detect"
    /\ lock_owner["dex_prices"] = "dex"
    /\ lock_owner["cex_prices"] = "binance"
    /\ Current("backpack").op = "lock"

\* C22: the price cache, and so every clone the detector takes of it, holds
\* the entries of no venue or of every venue, all with the timestamp of one
\* polling pass.
WholePass(map) ==
    /\ DOMAIN map = {} \/ DOMAIN map = {"uniswap-v3-500", "uniswap-v3-3000"}
    /\ \A v, w \in DOMAIN map : map[v].timestamp = map[w].timestamp
PollingPassVisibleAtOnce ==
    /\ WholePass(dex_prices)
    /\ WholePass(dex_map)

\* The detector holds the clone of a pass of second 1 and the list still
\* holds an opportunity computed from the pass of second 0.
PollingPassWitness ==
    /\ detect_pc = "dex_read"
    /\ DOMAIN dex_map = {"uniswap-v3-500", "uniswap-v3-3000"}
    /\ \A v \in DOMAIN dex_map : dex_map[v].timestamp = 1
    /\ opportunities # <<>>
    /\ opportunities[1].timestamp = 0

====
